---- MODULE Spec2Model ----
(***************************************************************************)
(* Fraud-detection analytics stack: the dashboard's start-up pipeline      *)
(* (ip_to_int, process_ecommerce_data, create_summary_stats), its Dash     *)
(* callbacks (update_charts, initialize_geo_chart), the model-serving      *)
(* endpoints (/predict/fraud, /predict/creditcard) and the training        *)
(* helpers (augment_and_merge_data, EarlyStopping, train_model).           *)
(*                                                                         *)
(* Python values are records tagged by their type. Strings that the code   *)
(* parses are sequences of one-character strings. A 32-bit unsigned        *)
(* integer is kept as two 16-bit halves [hi, lo] (value hi * 2^16 + lo),   *)
(* because the checker's integers are 32-bit signed.                       *)
(***************************************************************************)
EXTENDS Integers, Sequences, FiniteSets, TLC

VARIABLES
    \* ip_to_int called on its own
    ip,                      \* the argument
    ip_result,               \* what the call produced (type "pending" before it)
    \* process_ecommerce_data
    fraud_data,              \* raw transaction records, in file order
    ip_country,              \* raw range table, in file order
    fraud_data_with_country, \* the returned frame
    enrich_pc,               \* "idle" | "start" | "done" | "failed"
    \* create_summary_stats
    stats_fraud,             \* the 'class' column of its first argument
    stats_credit,            \* the 'Class' column of its second argument
    stats_result,            \* <<ecom_stats, credit_stats>> or an exception
    stats_pc,                \* "idle" | "start" | "done"
    \* the running dashboard
    fraud_data_processed,    \* module global, dashboard_app.py:148
    credit_data,             \* module global, dashboard_app.py:147
    ecom_stats,              \* module global, dashboard_app.py:149
    credit_stats,            \* module global, dashboard_app.py:149
    loaded,                  \* the four globals as they were at start
    px_rejects_empty,        \* whether plotly express raises on a frame without rows
    call,                    \* the last callback invocation and its arguments
    out,                     \* what that invocation returned
    \* the model API
    fraud_model,             \* module global, serve_model.py:22
    creditcard_model,        \* module global, serve_model.py:25-27
    api_loaded,              \* the two models as they were loaded
    request,                 \* the last request
    response,                \* the response to it
    \* augment_and_merge_data
    original_data,           \* the frame passed in: index labels and rows
    num_samples,             \* None or an int
    augmented_data,          \* the returned rows, or an exception
    \* EarlyStopping and train_model
    early_stopper,           \* the EarlyStopping object's attributes
    losses,                  \* every __call__ so far: the loss and best_loss before it
    train_loader,            \* the number of batches the loader yields per epoch
    num_epochs,              \* train_model's argument
    epoch,                   \* epochs completed so far
    train_pc                 \* "idle" | "loop" | "returned" | "raised"

varsIp     == <<ip, ip_result>>
varsEnrich == <<fraud_data, ip_country, fraud_data_with_country, enrich_pc>>
varsStats  == <<stats_fraud, stats_credit, stats_result, stats_pc>>
varsDash   == <<fraud_data_processed, credit_data, ecom_stats, credit_stats,
               loaded, px_rejects_empty, call, out>>
varsApi    == <<fraud_model, creditcard_model, api_loaded, request, response>>
varsAugment == <<original_data, num_samples, augmented_data>>
varsStopper == <<early_stopper, losses>>
varsTrain  == <<train_loader, num_epochs, epoch, train_pc>>
varsScripts == <<varsAugment, varsStopper, varsTrain>>
vars       == <<varsIp, varsEnrich, varsStats, varsDash, varsApi, varsScripts>>

----------------------------------------------------------------------------
(* Generic helpers *)

Range(s) == { s[i] : i \in DOMAIN s }

SeqsUpTo(S, n) == UNION { [1..k -> S] : k \in 0..n }

PyNone == [type |-> "NoneType"]

Raised(exc) == [type |-> "raise", exc |-> exc]

PyStr(chars) == [type |-> "str", chars |-> chars]

----------------------------------------------------------------------------
(* ip_to_int: socket.inet_aton followed by struct.unpack("!I", ...)        *)

DecDigits == {"0", "1", "2", "3", "4", "5", "6", "7", "8", "9"}

HexDigits == DecDigits \cup {"a", "b", "c", "d", "e", "f"}

DigitVal ==
    [c \in HexDigits |->
        CASE c = "0" -> 0 [] c = "1" -> 1 [] c = "2" -> 2 [] c = "3" -> 3
          [] c = "4" -> 4 [] c = "5" -> 5 [] c = "6" -> 6 [] c = "7" -> 7
          [] c = "8" -> 8 [] c = "9" -> 9 [] c = "a" -> 10 [] c = "b" -> 11
          [] c = "c" -> 12 [] c = "d" -> 13 [] c = "e" -> 14 [] c = "f" -> 15]

\* The character at position p of a C string; "EOS" is the terminating NUL.
CharAt(s, p) == IF p \in DOMAIN s THEN s[p] ELSE "EOS"

U32Zero == [over |-> FALSE, hi |-> 0, lo |-> 0]

\* v * base + d on an unsigned long, flagged once it exceeds 0xffffffff.
Accumulate(v, base, d) ==
    LET lo2 == v.lo * base + d
        hi2 == v.hi * base + (lo2 \div 65536)
    IN  IF v.over \/ hi2 > 65535
        THEN [over |-> TRUE, hi |-> 0, lo |-> 0]
        ELSE [over |-> FALSE, hi |-> hi2, lo |-> lo2 % 65536]

IsDigitOfBase(c, base) == c \in HexDigits /\ DigitVal[c] < base

RECURSIVE ScanDigits(_, _, _, _)
ScanDigits(s, p, base, v) ==
    IF IsDigitOfBase(CharAt(s, p), base)
    THEN ScanDigits(s, p + 1, base, Accumulate(v, base, DigitVal[s[p]]))
    ELSE [val |-> v, endp |-> p]

\* strtoul(cp, &endp, 0) from position p: 0x = hex, 0 = octal, else decimal.
strtoul(s, p) ==
    IF CharAt(s, p) = "0" /\ CharAt(s, p + 1) = "x"
       /\ IsDigitOfBase(CharAt(s, p + 2), 16)
    THEN ScanDigits(s, p + 2, 16, U32Zero)
    ELSE IF CharAt(s, p) = "0"
    THEN ScanDigits(s, p, 8, U32Zero)
    ELSE ScanDigits(s, p, 10, U32Zero)

\* The four bytes of a 32-bit value, most significant first.
BytesOf(v) == << v.hi \div 256, v.hi % 256, v.lo \div 256, v.lo % 256 >>

\* val <= max[n] for n dotted parts already stored:
\* max = {0xffffffff, 0xffffff, 0xffff, 0xff}.
FitsLastPart(v, n) ==
    CASE n = 0 -> TRUE
      [] n = 1 -> v.hi <= 255
      [] n = 2 -> v.hi = 0
      [] n = 3 -> v.hi = 0 /\ v.lo <= 255

AtonFail == << >>

\* inet_aton's loop: `bytes` are the dotted parts stored so far. Returns the
\* packed address (four bytes in network order) or AtonFail.
RECURSIVE inet_aton_loop(_, _, _)
inet_aton_loop(s, p, bytes) ==
    IF CharAt(s, p) \notin DecDigits THEN AtonFail
    ELSE
    LET r  == strtoul(s, p)
        c2 == CharAt(s, r.endp)
    IN  IF r.val.over THEN AtonFail
        ELSE IF c2 = "."
        THEN IF Len(bytes) > 2 \/ r.val.hi # 0 \/ r.val.lo > 255
             THEN AtonFail
             ELSE inet_aton_loop(s, r.endp + 1, Append(bytes, r.val.lo))
        ELSE IF c2 # "EOS" /\ c2 # " " THEN AtonFail
        ELSE IF r.endp = p THEN AtonFail
        ELSE IF ~FitsLastPart(r.val, Len(bytes)) THEN AtonFail
        ELSE bytes \o SubSeq(BytesOf(r.val), Len(bytes) + 1, 4)

inet_aton(s) == inet_aton_loop(s, 1, << >>)

\* struct.unpack("!I", packed)[0]: big-endian unsigned 32-bit.
unpack_I(b) == [type |-> "int", hi |-> b[1] * 256 + b[2], lo |-> b[3] * 256 + b[4]]

\* What socket.inet_aton(ip) does at the Python level: the argument must be a
\* str without an embedded NUL; an address inet_aton rejects raises OSError.
socket_inet_aton(x) ==
    IF x.type # "str" THEN Raised("TypeError")
    ELSE IF "NUL" \in Range(x.chars) THEN Raised("ValueError")
    ELSE IF inet_aton(x.chars) = AtonFail THEN Raised("OSError")
    ELSE [type |-> "bytes", bytes |-> inet_aton(x.chars)]

\* `except socket.error`: socket.error is OSError.
ip_to_int_catches(exc) == exc = "OSError"

ip_to_int(x) ==
    LET packed == socket_inet_aton(x)
    IN  IF packed.type = "raise"
        THEN IF ip_to_int_catches(packed.exc) THEN PyNone ELSE packed
        ELSE unpack_I(packed.bytes)

----------------------------------------------------------------------------
(* process_ecommerce_data: the IP-range-to-country join                     *)

\* A batch holds up to two records: each record is resolved on its own, and
\* two are enough for one record to abort or survive beside another.
BatchSizes == 0..2

MaxRanges == 2

MaxIp == 2

Countries == {"A", "B"}

\* A float cell of the ip_address column: NaN (missing) or a whole number.
NaN == [type |-> "float", nan |-> TRUE, whole |-> 0]

Float(n) == [type |-> "float", nan |-> FALSE, whole |-> n]

\* The ip_address cells a file can hold: missing, negative, or an address.
IpAddresses == {NaN} \cup { Float(n) : n \in -1..MaxIp }

\* Raw transaction frames: row i carries user_id i.
RawFrames(sizes) ==
    { [i \in DOMAIN col |-> [user_id |-> i, ip_address |-> col[i]]] :
        col \in UNION { [1..k -> IpAddresses] : k \in sizes } }

RangeRows ==
    { [lower_bound_ip_address |-> l, upper_bound_ip_address |-> u, country |-> c] :
        l \in 0..MaxIp, u \in 0..MaxIp, c \in Countries }

\* Range tables: each row an interval [lower, upper] with lower <= upper.
RangeTables(n) ==
    SeqsUpTo({ r \in RangeRows :
                 r.lower_bound_ip_address <= r.upper_bound_ip_address }, n)

\* str(n) for an int n.
RECURSIVE str_nat(_)
str_nat(n) ==
    LET d == CHOOSE c \in DecDigits : DigitVal[c] = n % 10
    IN  IF n < 10 THEN << d >> ELSE Append(str_nat(n \div 10), d)

str_int(n) == IF n < 0 THEN << "-" >> \o str_nat(-n) ELSE str_nat(n)

\* lambda x: ip_to_int(str(int(x))) if pd.notna(x) else None
ip_int_of(cell) ==
    IF ~cell.nan THEN ip_to_int(PyStr(str_int(cell.whole))) ELSE PyNone

\* Series.astype('int64') on the ip_int column: a None (or NaN) cell raises.
astype_int64_ok(col) == \A i \in DOMAIN col : col[i].type = "int"

Int64(v) == v.hi * 65536 + v.lo

\* DataFrame.sort_values(by): quicksort is not stable, so every ordering
\* that is ascending by the column is a possible outcome.
sort_values(df, by) ==
    { [i \in DOMAIN df |-> df[p[i]]] : p \in
        { q \in Permutations(DOMAIN df) :
            \A i, j \in DOMAIN df : i < j => df[q[i]][by] <= df[q[j]][by] } }

NoRow == [missing |-> TRUE]

\* direction='forward' instead: the first right row whose key is >= the left key.
asof_forward(right, k) ==
    LET hits == { j \in DOMAIN right : right[j].lower_bound_ip_address >= k }
    IN  IF hits = {} THEN NoRow
        ELSE [missing |-> FALSE,
              row |-> right[CHOOSE j \in hits : \A h \in hits : j <= h]]

\* direction='backward': the last right row whose key is <= the left key.
asof_backward(right, k) ==
    LET hits == { j \in DOMAIN right : right[j].lower_bound_ip_address <= k }
    IN  IF hits = {} THEN NoRow
        ELSE [missing |-> FALSE,
              row |-> right[CHOOSE j \in hits : \A h \in hits : h <= j]]

\* pd.merge_asof(left, right, left_on='ip_int', right_on='lower_bound_ip_address'):
\* a left join, one output row per left row, in the left frame's order.
merge_asof(left, right) ==
    [i \in DOMAIN left |-> [left |-> left[i], right |-> asof_backward(right, left[i].ip_int)]]

\* The mask of line 104 alone: the upper bound is not looked at.
above_lower_bound_mask(m) ==
    /\ ~m.right.missing
    /\ m.left.ip_int >= m.right.row.lower_bound_ip_address

\* The boolean mask of lines 104-105; a comparison with NaN is False.
in_range_mask(m) ==
    /\ ~m.right.missing
    /\ m.left.ip_int >= m.right.row.lower_bound_ip_address
    /\ m.left.ip_int <= m.right.row.upper_bound_ip_address

\* The merge without the range filter: every left row is kept, its country
\* NaN where no range matched.
keep_all_rows(merged) ==
    [i \in DOMAIN merged |->
        [user_id |-> merged[i].left.user_id,
         ip_address |-> merged[i].left.ip_address,
         ip_int |-> merged[i].left.ip_int,
         country |-> IF merged[i].right.missing THEN "NaN"
                     ELSE merged[i].right.row.country]]

\* df[mask] followed by drop of the two bound columns.
keep_matched(merged) ==
    LET kept == SelectSeq(merged, in_range_mask)
    IN  [i \in DOMAIN kept |->
            [user_id |-> kept[i].left.user_id,
             ip_address |-> kept[i].left.ip_address,
             ip_int |-> kept[i].left.ip_int,
             country |-> kept[i].right.row.country]]

\* What a call of process_ecommerce_data can end in: an exception out of
\* line 88, or one of the frames the two sorts allow.
process_ecommerce_data_outcomes(fd, ipc) ==
    LET col == [i \in DOMAIN fd |-> ip_int_of(fd[i].ip_address)]
    IN  IF ~astype_int64_ok(col) THEN { [ok |-> FALSE, frame |-> << >>] }
        ELSE
        LET cleaned == [i \in DOMAIN fd |->
                          [user_id |-> fd[i].user_id,
                           ip_address |-> fd[i].ip_address,
                           ip_int |-> Int64(col[i])]]
        IN  { [ok |-> TRUE, frame |-> keep_matched(merge_asof(left, right))] :
                left \in sort_values(cleaned, "ip_int"),
                right \in sort_values(ipc, "lower_bound_ip_address") }

process_ecommerce_data ==
    /\ enrich_pc = "start"
    /\ \E o \in process_ecommerce_data_outcomes(fraud_data, ip_country) :
          /\ enrich_pc' = IF o.ok THEN "done" ELSE "failed"
          /\ fraud_data_with_country' = o.frame
    /\ UNCHANGED <<fraud_data, ip_country, varsIp, varsStats, varsDash, varsApi, varsScripts>>

----------------------------------------------------------------------------
(* Each part of the stack is checked under its own specification; the      *)
(* variables of the other parts then stay idle.                            *)

IdleIp == ip = PyNone /\ ip_result = [type |-> "idle"]

IdleEnrich ==
    /\ fraud_data = << >>
    /\ ip_country = << >>
    /\ fraud_data_with_country = << >>
    /\ enrich_pc = "idle"

IdleStats ==
    /\ stats_fraud = << >>
    /\ stats_credit = << >>
    /\ stats_result = [type |-> "idle"]
    /\ stats_pc = "idle"

IdleDash ==
    /\ fraud_data_processed = << >>
    /\ credit_data = << >>
    /\ ecom_stats = << >>
    /\ credit_stats = << >>
    /\ loaded = << >>
    /\ px_rejects_empty = FALSE
    /\ call = [fn |-> "idle"]
    /\ out = [type |-> "idle"]

IdleApi ==
    /\ fraud_model = << >>
    /\ creditcard_model = << >>
    /\ api_loaded = << >>
    /\ request = << >>
    /\ response = << >>

IdleAugment ==
    /\ original_data = << >>
    /\ num_samples = PyNone
    /\ augmented_data = [type |-> "idle"]

IdleStopper ==
    /\ early_stopper = << >>
    /\ losses = << >>

IdleTrain ==
    /\ train_loader = 0
    /\ num_epochs = 0
    /\ epoch = 0
    /\ train_pc = "idle"

IdleScripts == IdleAugment /\ IdleStopper /\ IdleTrain

\* process_ecommerce_data applied to any raw frame and any range table.
InitEnrich ==
    /\ fraud_data \in RawFrames(BatchSizes)
    /\ ip_country \in RangeTables(MaxRanges)
    /\ fraud_data_with_country = << >>
    /\ enrich_pc = "start"
    /\ IdleIp /\ IdleStats /\ IdleDash /\ IdleApi /\ IdleScripts

NextEnrich == process_ecommerce_data

SpecEnrich == InitEnrich /\ [][NextEnrich]_vars

----------------------------------------------------------------------------
(* Claims about the IP-to-country join                                     *)

\* The range table as given is ascending by lower bound and its ranges do
\* not overlap.
SortedNonOverlapping(t) ==
    \A i, j \in DOMAIN t :
        i < j => t[i].upper_bound_ip_address < t[j].lower_bound_ip_address

\* The transaction's IP integer, for a record that has one.
HasIp(r) == ~r.ip_address.nan /\ r.ip_address.whole >= 0

IpOf(r) == r.ip_address.whole

InRange(r, row) ==
    /\ HasIp(r)
    /\ row.lower_bound_ip_address <= IpOf(r)
    /\ IpOf(r) <= row.upper_bound_ip_address

\* The result rows that stem from input record i.
ResultRowsOf(i) ==
    { k \in DOMAIN fraud_data_with_country : fraud_data_with_country[k].user_id = i }

CountriesOf(i) == { fraud_data_with_country[k].country : k \in ResultRowsOf(i) }

\* C1: with a table sorted by lower bound and free of overlaps, a record
\* whose IP lies inside a range is resolved to exactly that range's country,
\* and a record whose IP lies outside all ranges is resolved to no country.
C1_ResolvesToContainingRange ==
    (enrich_pc = "done" /\ SortedNonOverlapping(ip_country)) =>
        \A i \in DOMAIN fraud_data :
            /\ \A j \in DOMAIN ip_country :
                   InRange(fraud_data[i], ip_country[j])
                       => CountriesOf(i) = {ip_country[j].country}
            /\ (\A j \in DOMAIN ip_country : ~InRange(fraud_data[i], ip_country[j]))
                   => CountriesOf(i) = {}

\* A two-range table with a gap, one record inside the second range and one
\* record in the gap, after the join has run.
C1_Witness ==
    /\ enrich_pc = "done"
    /\ Len(ip_country) = 2
    /\ SortedNonOverlapping(ip_country)
    /\ ip_country[1].country # ip_country[2].country
    /\ \E i \in DOMAIN fraud_data : InRange(fraud_data[i], ip_country[2])
    /\ \E i \in DOMAIN fraud_data :
           /\ IpOf(fraud_data[i]) > ip_country[1].upper_bound_ip_address
           /\ \A j \in DOMAIN ip_country : ~InRange(fraud_data[i], ip_country[j])

\* C2 as claimed: the returned frame holds every input record exactly once,
\* also a record whose IP falls in no range.
C2_EveryRecordKept ==
    enrich_pc = "done" =>
        \A i \in DOMAIN fraud_data : Cardinality(ResultRowsOf(i)) = 1

\* C2 as amended: the returned frame holds no record twice and no record that
\* was not passed in; a record whose IP falls in a range of a sorted,
\* non-overlapping table is there exactly once; a record whose IP falls in no
\* range has been removed.
C2_UnmatchedRecordsRemoved ==
    enrich_pc = "done" =>
        /\ \A k \in DOMAIN fraud_data_with_country :
               fraud_data_with_country[k].user_id \in DOMAIN fraud_data
        /\ \A i \in DOMAIN fraud_data :
               /\ Cardinality(ResultRowsOf(i)) <= 1
               /\ (\A j \in DOMAIN ip_country : ~InRange(fraud_data[i], ip_country[j]))
                      => ResultRowsOf(i) = {}
               /\ (/\ SortedNonOverlapping(ip_country)
                   /\ \E j \in DOMAIN ip_country : InRange(fraud_data[i], ip_country[j]))
                      => Cardinality(ResultRowsOf(i)) = 1

\* Two records went in, one inside a range and one outside all ranges, and
\* one row came out.
C2_Witness ==
    /\ enrich_pc = "done"
    /\ Len(fraud_data) = 2
    /\ Len(fraud_data_with_country) = 1
    /\ \E i \in DOMAIN fraud_data :
           \A j \in DOMAIN ip_country : ~InRange(fraud_data[i], ip_country[j])

\* A record whose ip_address is missing or is one ip_to_int returns None for.
InvalidIp(r) == r.ip_address.nan \/ ip_int_of(r.ip_address) = PyNone

\* C3: a batch holding a record with a missing or unconvertible IP still
\* completes; that record is resolved to no match and the others as usual.
C3_InvalidIpDoesNotAbortBatch ==
    (enrich_pc # "start" /\ \E i \in DOMAIN fraud_data : InvalidIp(fraud_data[i])) =>
        /\ enrich_pc = "done"
        /\ \A i \in DOMAIN fraud_data :
               InvalidIp(fraud_data[i]) => ResultRowsOf(i) = {}

\* C12: for every range table, also one with overlaps, gaps or duplicate
\* lower bounds, each record returned with a country has its IP integer
\* inside a range of the table that is mapped to that country.
C12_ReturnedCountryContainsIp ==
    enrich_pc = "done" =>
        \A k \in DOMAIN fraud_data_with_country :
            \E j \in DOMAIN ip_country :
                /\ ip_country[j].country = fraud_data_with_country[k].country
                /\ InRange(fraud_data[fraud_data_with_country[k].user_id], ip_country[j])

\* A table that is not sorted without overlaps; one record came back with a
\* country, and another, lying above a lower bound of the table but inside
\* no range, did not.
C12_Witness ==
    /\ enrich_pc = "done"
    /\ ~SortedNonOverlapping(ip_country)
    /\ fraud_data_with_country # << >>
    /\ \E i \in DOMAIN fraud_data :
          /\ HasIp(fraud_data[i])
          /\ ResultRowsOf(i) = {}
          /\ \E j \in DOMAIN ip_country :
                 ip_country[j].lower_bound_ip_address <= IpOf(fraud_data[i])

----------------------------------------------------------------------------
(* ip_to_int on its own                                                    *)

MaxParts == 4

\* The dot-separated parts the argument strings are built from: decimal,
\* octal-looking and hexadecimal numerals at and beyond each part's limit,
\* an empty part, a sign, trailing white space and an embedded NUL.
PartTokens ==
    { << >>, <<"1">>, <<"2", "5", "5">>, <<"2", "5", "6">>, <<"0", "1", "0">>,
      <<"0", "8">>, <<"0", "x", "f", "f">>, <<"1", " ">>, <<"-", "1">>,
      <<"1", "NUL">>, <<"6", "5", "5", "3", "6">>,
      <<"4", "2", "9", "4", "9", "6", "7", "2", "9", "5">>,
      <<"4", "2", "9", "4", "9", "6", "7", "2", "9", "6">> }

RECURSIVE JoinDots(_)
JoinDots(parts) ==
    IF Len(parts) = 1 THEN parts[1]
    ELSE parts[1] \o <<".">> \o JoinDots(Tail(parts))

\* The arguments ip_to_int is called with: strings of 1..n parts, and
\* two objects that are not strings.
IpArguments(n) ==
    { PyStr(JoinDots(parts)) :
        parts \in UNION { [1..k -> PartTokens] : k \in 1..n } }
    \cup { PyNone, [type |-> "int", hi |-> 0, lo |-> 5] }

InitIpToInt ==
    /\ ip \in IpArguments(MaxParts)
    /\ ip_result = [type |-> "pending"]
    /\ IdleEnrich /\ IdleStats /\ IdleDash /\ IdleApi /\ IdleScripts

call_ip_to_int ==
    /\ ip_result.type = "pending"
    /\ ip_result' = ip_to_int(ip)
    /\ UNCHANGED <<ip, varsEnrich, varsStats, varsDash, varsApi, varsScripts>>

NextIpToInt == call_ip_to_int

SpecIpToInt == InitIpToInt /\ [][NextIpToInt]_vars

\* The parts of a string between its dots.
RECURSIVE SplitDots(_, _)
SplitDots(chars, cur) ==
    IF chars = << >> THEN << cur >>
    ELSE IF Head(chars) = "." THEN << cur >> \o SplitDots(Tail(chars), << >>)
    ELSE SplitDots(Tail(chars), Append(cur, Head(chars)))

RECURSIVE DecimalValue(_)
DecimalValue(digits) ==
    IF digits = << >> THEN 0
    ELSE 10 * DecimalValue(SubSeq(digits, 1, Len(digits) - 1))
         + DigitVal[digits[Len(digits)]]

\* A decimal numeral of one to three digits with a value in 0..255.
DecimalOctet(part) ==
    /\ Len(part) \in 1..3
    /\ \A i \in DOMAIN part : part[i] \in DecDigits
    /\ DecimalValue(part) <= 255

\* A dotted-decimal IPv4 address 'a.b.c.d'.
DottedQuad(x) ==
    /\ x.type = "str"
    /\ Len(SplitDots(x.chars, << >>)) = 4
    /\ \A i \in 1..4 : DecimalOctet(SplitDots(x.chars, << >>)[i])

\* a * 2^24 + b * 2^16 + c * 2^8 + d, in halves.
QuadValue(x) ==
    LET q == SplitDots(x.chars, << >>)
    IN  [type |-> "int",
         hi |-> DecimalValue(q[1]) * 256 + DecimalValue(q[2]),
         lo |-> DecimalValue(q[3]) * 256 + DecimalValue(q[4])]

\* C10: ip_to_int returns a*2^24 + b*2^16 + c*2^8 + d for a dotted-decimal
\* 'a.b.c.d' with every octet in 0..255, and returns None, without raising,
\* for every argument that is not a valid IPv4 address.
C10_IpToIntContract ==
    ip_result.type # "pending" =>
        IF DottedQuad(ip) THEN ip_result = QuadValue(ip) ELSE ip_result = PyNone

----------------------------------------------------------------------------
(* create_summary_stats                                                    *)

MaxStatRows == 4

\* A label column: its dtype and its 0/1 cells. A column with rows was
\* parsed as int64; an empty one is int64 (every row filtered out) or object
\* (the file held no rows).
LabelColumns(n) ==
    { [dtype |-> "int64", cells |-> c] : c \in SeqsUpTo({0, 1}, n) }
    \cup { [dtype |-> "object", cells |-> << >>] }

RECURSIVE SumCells(_)
SumCells(c) == IF c = << >> THEN 0 ELSE Head(c) + SumCells(Tail(c))

NaNPercentage == [nan |-> TRUE, hundredths |-> 0]

\* Rounding to the nearest hundredth by truncation instead.
round2_truncating(f, n) == { (10000 * f) \div n }

\* (f / n * 100).round(2), in hundredths: the nearest hundredth; on an exact
\* tie the float error of the two multiplications decides the side.
round2(f, n) ==
    LET k   == (10000 * f) \div n
        rem == (10000 * f) % n
    IN  IF 2 * rem < n THEN {k}
        ELSE IF 2 * rem > n THEN {k + 1}
        ELSE {k, k + 1}

\* One statistics dictionary (lines 130-134 and 137-141), or the exception
\* its percentage raises: Series.sum() of an empty object column is the
\* Python int 0, and 0 / 0 raises; numpy's int64 0 / 0 is nan.
stats_of(col) ==
    LET n == Len(col.cells)
        f == SumCells(col.cells)
    IN  IF n = 0
        THEN IF col.dtype = "object"
             THEN { Raised("ZeroDivisionError") }
             ELSE { [type |-> "dict", total_transactions |-> n, fraud_cases |-> f,
                     fraud_percentage |-> NaNPercentage] }
        ELSE { [type |-> "dict", total_transactions |-> n, fraud_cases |-> f,
                fraud_percentage |-> [nan |-> FALSE, hundredths |-> h]] :
                 h \in round2(f, n) }

\* The tuple create_summary_stats returns, or the exception that ends it.
create_summary_stats_outcomes(fd, cd) ==
    { IF e.type = "raise" THEN e
      ELSE IF c.type = "raise" THEN c
      ELSE [type |-> "tuple", ecom_stats |-> e, credit_stats |-> c] :
        e \in stats_of(fd), c \in stats_of(cd) }

InitStats ==
    /\ stats_fraud \in LabelColumns(MaxStatRows)
    /\ stats_credit \in LabelColumns(MaxStatRows)
    /\ stats_result = [type |-> "pending"]
    /\ stats_pc = "start"
    /\ IdleIp /\ IdleEnrich /\ IdleDash /\ IdleApi /\ IdleScripts

create_summary_stats ==
    /\ stats_pc = "start"
    /\ stats_result' \in create_summary_stats_outcomes(stats_fraud, stats_credit)
    /\ stats_pc' = "done"
    /\ UNCHANGED <<stats_fraud, stats_credit, varsIp, varsEnrich, varsDash, varsApi, varsScripts>>

NextStats == create_summary_stats

SpecStats == InitStats /\ [][NextStats]_vars

\* The number of records with fraud label 1.
FraudCount(col) == Cardinality({ i \in DOMAIN col.cells : col.cells[i] = 1 })

\* fraud_percentage == 100 * fraud_cases / total_transactions, exactly.
ExactPercentage(st, col) ==
    /\ st.total_transactions = Len(col.cells)
    /\ st.fraud_cases = FraudCount(col)
    /\ Len(col.cells) > 0
    /\ ~st.fraud_percentage.nan
    /\ st.fraud_percentage.hundredths * Len(col.cells) = 10000 * FraudCount(col)

\* C4 as claimed: for every dataset, also an empty one and one whose ratio
\* is no two-decimal number, each returned record has
\* fraud_percentage == 100 * fraud_cases / total_transactions.
C4_PercentageExact ==
    stats_pc = "done" =>
        /\ stats_result.type = "tuple"
        /\ ExactPercentage(stats_result.ecom_stats, stats_fraud)
        /\ ExactPercentage(stats_result.credit_stats, stats_credit)

\* fraud_percentage is 100 * fraud_cases / total_transactions rounded to two
\* decimals: within 0.005 of it; NaN for a dataset without records.
RoundedPercentage(st, col) ==
    /\ st.total_transactions = Len(col.cells)
    /\ st.fraud_cases = FraudCount(col)
    /\ IF Len(col.cells) = 0 THEN st.fraud_percentage.nan
       ELSE /\ ~st.fraud_percentage.nan
            /\ 2 * st.fraud_percentage.hundredths * Len(col.cells)
                   <= 2 * 10000 * FraudCount(col) + Len(col.cells)
            /\ 2 * st.fraud_percentage.hundredths * Len(col.cells)
                   >= 2 * 10000 * FraudCount(col) - Len(col.cells)

\* C4 as amended: each returned record counts the records and the fraud
\* labels and holds the percentage rounded to two decimals (NaN for an empty
\* dataset); the call returns no record only when a dataset is empty.
C4_PercentageRoundedToTwoDecimals ==
    stats_pc = "done" =>
        IF stats_result.type = "tuple"
        THEN /\ RoundedPercentage(stats_result.ecom_stats, stats_fraud)
             /\ RoundedPercentage(stats_result.credit_stats, stats_credit)
        ELSE stats_fraud.cells = << >> \/ stats_credit.cells = << >>

\* Two fraud cases among three records: 66.67, not 66.666...
C4_Witness ==
    /\ stats_pc = "done"
    /\ stats_result.type = "tuple"
    /\ Len(stats_fraud.cells) = 3
    /\ FraudCount(stats_fraud) = 2
    /\ stats_result.ecom_stats.fraud_percentage.hundredths = 6667

----------------------------------------------------------------------------
(* The running dashboard: module globals and the two Dash callbacks        *)

MaxRows == 2

\* The days purchases fall on and dates are picked from.
Days == 0..1

\* The hours of the day at which purchases are sampled.
SampleHours == {0, 13}

DayNames ==
    << "Thursday", "Friday", "Saturday", "Sunday", "Monday", "Tuesday", "Wednesday" >>

\* Timestamps count hours.
Timestamp(day, hour) == day * 24 + hour

\* Series.dt.date, Series.dt.hour and Series.dt.day_name() of a timestamp.
dt_date(t) == t \div 24

dt_hour(t) == t % 24

dt_day_name(t) == DayNames[(dt_date(t) % Len(DayNames)) + 1]

\* A row of fraud_data_processed: the columns the callbacks read, with the
\* two columns that lines 77-78 derive from purchase_time.
ProcessedRow(t, cls, country) ==
    [purchase_time |-> t,
     purchase_day |-> dt_day_name(t),
     purchase_hour |-> dt_hour(t),
     device_id |-> "device",
     browser |-> "Chrome",
     class |-> cls,
     country |-> country]

ProcessedRows ==
    { ProcessedRow(Timestamp(d, h), cls, c) :
        d \in Days, h \in SampleHours, cls \in {0, 1}, c \in Countries }

\* Position of a row in the order frames are enumerated in.
RowRank(r) == 4 * r.purchase_time + 2 * r.class + (IF r.country = "A" THEN 0 ELSE 1)

\* The frames process_ecommerce_data can return, up to row order: the
\* callbacks select rows by mask and aggregate by group, never by position,
\* so one sequence stands for each multiset of rows.
ProcessedFrames(n) ==
    { df \in SeqsUpTo(ProcessedRows, n) :
        \A i \in 1..(Len(df) - 1) : RowRank(df[i]) <= RowRank(df[i + 1]) }

\* credit_data['Class']
CreditFrame == [dtype |-> "int64", cells |-> <<0, 1, 0>>]

\* fraud_data['class'] of a processed frame.
ClassColumn(df) == [dtype |-> "int64", cells |-> [i \in DOMAIN df |-> df[i].class]]

\* What the date picker and the callers hand in as start_date / end_date:
\* nothing, a string that is no date, a date, or a date with a time of day.
DateInputs ==
    { PyNone, [type |-> "str", kind |-> "invalid"] }
    \cup { [type |-> "str", kind |-> "date", day |-> d] : d \in Days }
    \cup { [type |-> "str", kind |-> "datetime", day |-> 0, hour |-> 13] }

\* clickData of the map: nothing, an empty dict, a dict without a point, or
\* a point on a country (the last one on a country no record has).
ClickData ==
    { PyNone,
      [type |-> "dict", keys |-> {}],
      [type |-> "dict", keys |-> {"points"}, points |-> << >>],
      [type |-> "dict", keys |-> {"points"}, points |-> << [location |-> "A"] >>],
      [type |-> "dict", keys |-> {"points"}, points |-> << [location |-> "C"] >>] }

\* ctx.triggered[0]['prop_id'], or "" when ctx.triggered is empty.
PropIds ==
    { "", "filter-button.n_clicks", "reset-button.n_clicks", "geo-distribution.clickData" }

\* prop_id.split('.')[0]
button_id_of(prop_id) ==
    CASE prop_id = "filter-button.n_clicks" -> "filter-button"
      [] prop_id = "reset-button.n_clicks" -> "reset-button"
      [] prop_id = "geo-distribution.clickData" -> "geo-distribution"
      [] OTHER -> ""

\* Python truthiness of a callback argument.
truthy(x) == x.type # "NoneType" /\ (x.type = "dict" => x.keys # {})

\* pd.to_datetime of a date input: a date alone is midnight of that day.
to_datetime(d) ==
    IF d.kind = "invalid" THEN Raised("ValueError")
    ELSE IF d.kind = "date" THEN [type |-> "Timestamp", t |-> Timestamp(d.day, 0)]
    ELSE [type |-> "Timestamp", t |-> Timestamp(d.day, d.hour)]

\* Lines 357-360 with the upper bound left out.
filter_from_start(df, start, end) ==
    SelectSeq(df, LAMBDA r : r.purchase_time >= start)

\* Lines 357-360: the rows with start <= purchase_time <= end.
filter_by_date(df, start, end) ==
    SelectSeq(df, LAMBDA r : r.purchase_time >= start /\ r.purchase_time <= end)

\* Line 373: the rows of the clicked country.
filter_by_country(df, country) ==
    SelectSeq(df, LAMBDA r : r.country = country)

\* A filter applied in place would leave its result in the global frame.
frame_after_inplace_filter(df, result) == result

\* df[mask] builds a new frame and `filtered_data = ...` binds a local name:
\* the frame the global names is as it was.
frame_after_getitem(df, result) == df

\* The rows a previous invocation charted, as if filtered_data outlived it.
previous_filtered_data ==
    IF out.type = "return" /\ call.fn = "update_charts"
    THEN out.filtered ELSE fraud_data_processed

\* Line 336: filtered_data = fraud_data_processed
default_filtered_data == fraud_data_processed

Alert(message, display, color) ==
    [alert_message |-> message, alert_style |-> [display |-> display, color |-> color]]

\* geo_click_data['points'][0]['location'], or the exception it raises.
clicked_location(cd) ==
    IF "points" \notin cd.keys THEN Raised("KeyError")
    ELSE IF cd.points = << >> THEN Raised("IndexError")
    ELSE [type |-> "str", value |-> cd.points[1].location]

\* Lines 335-379: the rows to chart and the alert, or the exception that
\* leaves the callback before any figure is built.
select_rows(prop_id, start_date, end_date, geo_click_data) ==
    LET first == IF prop_id = "" \/ prop_id = "reset-button.n_clicks"
                 THEN Alert(<<"Displaying unfiltered data.">>, "block", "blue")
                 ELSE Alert(<<"">>, "none", "")
        button_id == button_id_of(prop_id)
    IN  IF prop_id = "" THEN [type |-> "rows", rows |-> default_filtered_data, alert |-> first]
        ELSE IF button_id = "filter-button" /\ truthy(start_date) /\ truthy(end_date)
        THEN LET s == to_datetime(start_date)
                 e == to_datetime(end_date)
             IN  IF s.type = "raise" THEN s
                 ELSE IF e.type = "raise" THEN e
                 ELSE [type |-> "rows",
                       rows |-> filter_by_date(fraud_data_processed, s.t, e.t),
                       alert |-> Alert(<<"Filters applied from", dt_date(s.t), "to", dt_date(e.t)>>,
                                       "block", "green")]
        ELSE IF button_id = "geo-distribution" /\ truthy(geo_click_data)
        THEN LET loc == clicked_location(geo_click_data)
             IN  IF loc.type = "raise"
                 THEN [type |-> "rows", rows |-> default_filtered_data,
                       alert |-> Alert(<<"Error retrieving country data.">>, "block", "red")]
                 ELSE [type |-> "rows",
                       rows |-> filter_by_country(default_filtered_data, loc.value),
                       alert |-> Alert(<<"Filtered by country:", loc.value>>, "block", "green")]
        ELSE [type |-> "rows", rows |-> default_filtered_data, alert |-> first]

\* groupby(key)['class'].sum(): one entry per key present.
sum_class_by(df, key) ==
    { [key |-> k,
       class |-> SumCells([i \in DOMAIN SelectSeq(df, LAMBDA r : r[key] = k) |->
                              SelectSeq(df, LAMBDA r : r[key] = k)[i].class])] :
        k \in { df[i][key] : i \in DOMAIN df } }

\* groupby(key).size(): one entry per key present.
size_by(df, key) ==
    { [key |-> k, size |-> Len(SelectSeq(df, LAMBDA r : r[key] = k))] :
        k \in { df[i][key] : i \in DOMAIN df } }

\* groupby([key, 'class']).size().unstack().fillna(0)
size_by_and_class(df, key) ==
    { [key |-> k,
       class0 |-> Len(SelectSeq(df, LAMBDA r : r[key] = k /\ r.class = 0)),
       class1 |-> Len(SelectSeq(df, LAMBDA r : r[key] = k /\ r.class = 1))] :
        k \in { df[i][key] : i \in DOMAIN df } }

\* The frame line 384 groups: purchase_time.dt.date beside class.
with_date(df) ==
    [i \in DOMAIN df |-> [date |-> dt_date(df[i].purchase_time), class |-> df[i].class]]

\* Lines 402 and 411 without the mask: every row.
all_rows(df) == df

\* filtered_data[filtered_data['class'] == 1]
fraud_rows(df) == SelectSeq(df, LAMBDA r : r.class = 1)

EmptyFigure == [type |-> "dict", data |-> {}]

Figure(data) == [type |-> "Figure", data |-> data]

\* Lines 382-425 with an except clause that empties the figures and leaves
\* the alert of the filter step.
build_figures_keeping_alert(rows, alert) ==
    IF rows = << >> /\ px_rejects_empty
    THEN [fraud_trends_fig |-> EmptyFigure, fraud_device_fig |-> EmptyFigure,
          fraud_browser_fig |-> EmptyFigure, fraud_hour_fig |-> EmptyFigure,
          fraud_day_fig |-> EmptyFigure, alert |-> alert]
    ELSE [fraud_trends_fig |-> Figure(sum_class_by(with_date(rows), "date")),
          fraud_device_fig |-> Figure(size_by_and_class(rows, "device_id")),
          fraud_browser_fig |-> Figure(size_by_and_class(rows, "browser")),
          fraud_hour_fig |-> Figure(size_by(fraud_rows(rows), "purchase_hour")),
          fraud_day_fig |-> Figure(size_by(fraud_rows(rows), "purchase_day")),
          alert |-> alert]

\* Lines 382-425: the five figures, or five empty dicts and the red alert
\* when building one of them raises. Whether plotly builds a figure from a
\* frame without rows is the library's choice, fixed for the process.
build_figures(rows, alert) ==
    IF rows = << >> /\ px_rejects_empty
    THEN [fraud_trends_fig |-> EmptyFigure, fraud_device_fig |-> EmptyFigure,
          fraud_browser_fig |-> EmptyFigure, fraud_hour_fig |-> EmptyFigure,
          fraud_day_fig |-> EmptyFigure,
          alert |-> Alert(<<"Error updating charts. Please check the data or filters.">>,
                          "block", "red")]
    ELSE [fraud_trends_fig |-> Figure(sum_class_by(with_date(rows), "date")),
          fraud_device_fig |-> Figure(size_by_and_class(rows, "device_id")),
          fraud_browser_fig |-> Figure(size_by_and_class(rows, "browser")),
          fraud_hour_fig |-> Figure(size_by(fraud_rows(rows), "purchase_hour")),
          fraud_day_fig |-> Figure(size_by(fraud_rows(rows), "purchase_day")),
          alert |-> alert]

\* What update_charts returns (its seven values and, beside them, the rows
\* it charted), or the exception that escapes it.
update_charts_result(prop_id, start_date, end_date, geo_click_data) ==
    LET sel == select_rows(prop_id, start_date, end_date, geo_click_data)
    IN  IF sel.type = "raise" THEN sel
        ELSE LET figs == build_figures(sel.rows, sel.alert)
             IN  [type |-> "return",
                  filtered |-> sel.rows,
                  fraud_trends_fig |-> figs.fraud_trends_fig,
                  fraud_device_fig |-> figs.fraud_device_fig,
                  fraud_browser_fig |-> figs.fraud_browser_fig,
                  fraud_hour_fig |-> figs.fraud_hour_fig,
                  fraud_day_fig |-> figs.fraud_day_fig,
                  alert_message |-> figs.alert.alert_message,
                  alert_style |-> figs.alert.alert_style]

UpdateChartsCall(prop_id, start_date, end_date, geo_click_data) ==
    [fn |-> "update_charts", prop_id |-> prop_id, start_date |-> start_date,
     end_date |-> end_date, geo_click_data |-> geo_click_data]

\* The argument tuples update_charts is invoked with. Dash passes the
\* current value of every Input and State on each invocation, whichever
\* fired: a filter click comes with every pair of dates, a map click with
\* every click datum, and every trigger comes with values of the
\* arguments its branch does not read.
Calls ==
    { UpdateChartsCall("filter-button.n_clicks", sd, ed, PyNone) :
        sd \in DateInputs, ed \in DateInputs }
    \cup
    { UpdateChartsCall("filter-button.n_clicks", d, d, cd) :
        d \in { PyNone, [type |-> "str", kind |-> "date", day |-> 0] },
        cd \in { cd \in ClickData : truthy(cd) /\ clicked_location(cd).type = "str" } }
    \cup
    { UpdateChartsCall("geo-distribution.clickData", d, d, cd) :
        d \in { PyNone, [type |-> "str", kind |-> "date", day |-> 0] },
        cd \in ClickData }
    \cup
    { UpdateChartsCall(pid, d, d, cd) :
        pid \in { "", "reset-button.n_clicks" },
        d \in { PyNone, [type |-> "str", kind |-> "date", day |-> 0] },
        cd \in { PyNone, [type |-> "dict", keys |-> {"points"},
                          points |-> << [location |-> "A"] >>] } }

\* Lines 318-428.
update_charts ==
    \E c \in Calls :
        LET res == update_charts_result(c.prop_id, c.start_date, c.end_date,
                                        c.geo_click_data)
        IN  /\ call' = c
            /\ out' = res
            /\ fraud_data_processed' =
                   frame_after_getitem(fraud_data_processed,
                                       IF res.type = "return" THEN res.filtered
                                       ELSE fraud_data_processed)
            /\ UNCHANGED <<credit_data, ecom_stats, credit_stats, loaded,
                           px_rejects_empty, varsIp, varsEnrich, varsStats, varsApi, varsScripts>>

\* Lines 436-503: fraud cases per country.
initialize_geo_chart ==
    /\ call' = [fn |-> "initialize_geo_chart"]
    /\ out' = IF fraud_rows(fraud_data_processed) = << >> /\ px_rejects_empty
              THEN Raised("ValueError")
              ELSE [type |-> "return",
                    geo_fig |-> Figure(size_by(fraud_rows(fraud_data_processed), "country"))]
    /\ UNCHANGED <<fraud_data_processed, credit_data, ecom_stats, credit_stats, loaded,
                   px_rejects_empty, varsIp, varsEnrich, varsStats, varsApi, varsScripts>>

\* The process after lines 147-149 have run: any processed frame, with the
\* statistics create_summary_stats derived from it.
Init ==
    /\ fraud_data_processed \in ProcessedFrames(MaxRows)
    /\ credit_data = CreditFrame
    /\ \E st \in create_summary_stats_outcomes(ClassColumn(fraud_data_processed), credit_data) :
          /\ st.type = "tuple"
          /\ ecom_stats = st.ecom_stats
          /\ credit_stats = st.credit_stats
    /\ loaded = [fraud_data_processed |-> fraud_data_processed,
                 credit_data |-> credit_data,
                 ecom_stats |-> ecom_stats,
                 credit_stats |-> credit_stats]
    /\ px_rejects_empty \in BOOLEAN
    /\ call = [fn |-> "start"]
    /\ out = [type |-> "none"]
    /\ IdleIp /\ IdleEnrich /\ IdleStats /\ IdleApi /\ IdleScripts

Next == update_charts \/ initialize_geo_chart

Spec == Init /\ [][Next]_vars

----------------------------------------------------------------------------
(* Claims about the dashboard callbacks                                    *)

\* The instant a date input names: a date without a time is 00:00 of its day.
InstantOf(d) == 24 * d.day + (IF d.kind = "datetime" THEN d.hour ELSE 0)

FilterClickWithDates ==
    /\ call.fn = "update_charts"
    /\ call.prop_id = "filter-button.n_clicks"
    /\ call.start_date # PyNone
    /\ call.end_date # PyNone

\* C5: when update_charts is triggered by the filter button with a start and
\* an end date, no charted record has its purchase_time before start_date
\* or after end_date.
C5_DateFilterExcludesOutsiders ==
    (FilterClickWithDates /\ out.type = "return") =>
        \A i \in DOMAIN out.filtered :
            /\ out.filtered[i].purchase_time >= InstantOf(call.start_date)
            /\ out.filtered[i].purchase_time <= InstantOf(call.end_date)

\* A filter click whose range keeps one record of the dataset and leaves out
\* a later one.
C5_Witness ==
    /\ FilterClickWithDates
    /\ out.type = "return"
    /\ out.filtered # << >>
    /\ \E i \in DOMAIN fraud_data_processed :
          fraud_data_processed[i].purchase_time > InstantOf(call.end_date)

\* C8: after any sequence of update_charts and initialize_geo_chart
\* invocations, fraud_data_processed, credit_data, ecom_stats and
\* credit_stats are what was loaded at process start.
C8_GlobalsReadOnly ==
    /\ fraud_data_processed = loaded.fraud_data_processed
    /\ credit_data = loaded.credit_data
    /\ ecom_stats = loaded.ecom_stats
    /\ credit_stats = loaded.credit_stats

\* An invocation has charted a proper part of the dataset; the globals are
\* still what was loaded.
C8_Witness ==
    /\ C8_GlobalsReadOnly
    /\ call.fn = "update_charts"
    /\ out.type = "return"
    /\ Len(out.filtered) < Len(loaded.fraud_data_processed)

\* The rows the current trigger and arguments select from the loaded dataset.
RowsSelectedBy(c) ==
    LET full == loaded.fraud_data_processed
    IN  IF c.prop_id = "filter-button.n_clicks" /\ c.start_date # PyNone /\ c.end_date # PyNone
        THEN SelectSeq(full, LAMBDA r : /\ InstantOf(c.start_date) <= r.purchase_time
                                        /\ r.purchase_time <= InstantOf(c.end_date))
        ELSE IF /\ c.prop_id = "geo-distribution.clickData"
                /\ c.geo_click_data # PyNone
                /\ c.geo_click_data.keys # {}
                /\ c.geo_click_data.points # << >>
        THEN SelectSeq(full, LAMBDA r : r.country = c.geo_click_data.points[1].location)
        ELSE full

\* The alert the current trigger and arguments call for.
AlertCalledFor(c) ==
    IF RowsSelectedBy(c) = << >> /\ px_rejects_empty
    THEN Alert(<<"Error updating charts. Please check the data or filters.">>, "block", "red")
    ELSE IF c.prop_id \in {"", "reset-button.n_clicks"}
    THEN Alert(<<"Displaying unfiltered data.">>, "block", "blue")
    ELSE IF c.prop_id = "filter-button.n_clicks"
    THEN IF c.start_date # PyNone /\ c.end_date # PyNone
         THEN Alert(<<"Filters applied from", c.start_date.day, "to", c.end_date.day>>,
                    "block", "green")
         ELSE Alert(<<"">>, "none", "")
    ELSE IF c.geo_click_data = PyNone \/ c.geo_click_data.keys = {}
    THEN Alert(<<"">>, "none", "")
    ELSE IF c.geo_click_data.points = << >>
    THEN Alert(<<"Error retrieving country data.">>, "block", "red")
    ELSE Alert(<<"Filtered by country:", c.geo_click_data.points[1].location>>,
               "block", "green")

\* C9: what an update_charts invocation charts is determined by its own
\* trigger and arguments and the loaded dataset alone: the full dataset for
\* no trigger or reset, the date-range subset of the full dataset for a
\* filter click, the clicked country's subset of the full dataset for a map
\* click; charts and alert follow from those rows, whatever was invoked
\* before.
C9_RecomputedFromFullDataset ==
    (call.fn = "update_charts" /\ out.type = "return") =>
        /\ out.filtered = RowsSelectedBy(call)
        /\ Alert(out.alert_message, out.alert_style.display, out.alert_style.color)
               = AlertCalledFor(call)
        /\ LET figs == build_figures(RowsSelectedBy(call), AlertCalledFor(call))
           IN  /\ out.fraud_trends_fig = figs.fraud_trends_fig
               /\ out.fraud_device_fig = figs.fraud_device_fig
               /\ out.fraud_browser_fig = figs.fraud_browser_fig
               /\ out.fraud_hour_fig = figs.fraud_hour_fig
               /\ out.fraud_day_fig = figs.fraud_day_fig

\* A map click on country A charts the A records of a dataset that also
\* holds a B record.
C9_Witness ==
    /\ call.fn = "update_charts"
    /\ call.prop_id = "geo-distribution.clickData"
    /\ out.type = "return"
    /\ out.filtered # << >>
    /\ \A i \in DOMAIN out.filtered : out.filtered[i].country = "A"
    /\ \E i \in DOMAIN loaded.fraud_data_processed :
          loaded.fraud_data_processed[i].country = "B"

----------------------------------------------------------------------------
(* The model API: the two prediction endpoints of serve_model.py           *)

MaxFeatures == 2

\* How many feature rows a credit-card request carries.
ApiBatchSizes == 1..2

\* JSON values as Python sees them after parsing.
JNum(v) == [type |-> "int", value |-> v]

JStr(s) == [type |-> "str", value |-> s]

JList(items) == [type |-> "list", items |-> items]

JDict(items) == [type |-> "dict", items |-> items]

\* A response of the Flask app: status and the one-key JSON object it holds.
Response(status, key, value) ==
    [type |-> "response", status |-> status, body |-> [key |-> key, value |-> value]]

\* The classes below Exception that the steps of the handlers raise.
ExceptionClasses ==
    { "BadRequest", "UnsupportedMediaType", "TypeError", "KeyError",
      "ValueError", "IndexError", "RuntimeError" }

FeatureValues == {0, 1}

\* Lists of numbers of length 0..n.
NumericVectors(n) ==
    { JList([i \in 1..Len(s) |-> JNum(s[i])]) : s \in SeqsUpTo(FeatureValues, n) }

\* Lists of length 1..n that end in a string no model can read as a number.
BadVectors(n) ==
    { JList([i \in 1..k |-> IF i = k THEN JStr("x") ELSE JNum(0)]) : k \in 1..n }

\* Lists of 1..2 rows of numbers, the rows of one length in 1..n.
Batches(n) ==
    { JList(rows) : rows \in UNION { [1..b -> { v \in NumericVectors(n) : Len(v.items) = k }] :
                                         b \in ApiBatchSizes, k \in 1..n } }

\* A list whose rows differ in length.
RaggedBatch == JList(<< JList(<< JNum(0), JNum(1) >>), JList(<< JNum(1) >>) >>)

\* A request as the handler meets it: whether its body parses as JSON, and
\* the parsed body.
Request(endpoint, is_json, body) ==
    [endpoint |-> endpoint, is_json |-> is_json, body |-> body]

\* Bodies that are no JSON object with the key the endpoint reads.
KeylessBodies(other_key) ==
    { JList(<< >>), JDict(<< >>),
      JDict([k \in {other_key} |-> JList(<< JNum(0) >>)]) }

FraudRequests(n) ==
    { Request("/predict/fraud", FALSE, PyNone) }
    \cup { Request("/predict/fraud", TRUE, b) : b \in KeylessBodies("data") }
    \cup { Request("/predict/fraud", TRUE, JDict([k \in {"features"} |-> p])) :
             p \in NumericVectors(n) \cup BadVectors(n)
                   \cup { JNum(1), JStr("x"), RaggedBatch,
                          JList(<< JList(<< JNum(0), JNum(1) >>) >>) } }

CreditRequests(n) ==
    { Request("/predict/creditcard", FALSE, PyNone) }
    \cup { Request("/predict/creditcard", TRUE, b) : b \in KeylessBodies("features") }
    \cup { Request("/predict/creditcard", TRUE, JDict([k \in {"data"} |-> p])) :
             p \in Batches(n) \cup BadVectors(n)
                   \cup { JNum(1), RaggedBatch, JList(<< >>), JList(<< JNum(0), JNum(1) >>),
                          JList(<< JList(<< JNum(0), JStr("x") >>) >>) } }

\* request.get_json() / request.json: the parsed body; for a body that is no
\* JSON, 400 or 415 raised, or None returned, as the Flask release has it.
get_json(req) ==
    IF req.is_json THEN { req.body }
    ELSE { Raised("BadRequest"), Raised("UnsupportedMediaType"), PyNone }

\* data[key]
getitem(data, key) ==
    IF data.type = "dict"
    THEN IF key \in DOMAIN data.items THEN data.items[key] ELSE Raised("KeyError")
    ELSE Raised("TypeError")

IsListOf(v, type) ==
    v.type = "list" /\ \A i \in DOMAIN v.items : v.items[i].type = type

\* A list of lists of one length, scalars at the leaves.
IsRectangular(v) ==
    /\ v.type = "list"
    /\ v.items # << >>
    /\ \A i \in DOMAIN v.items :
          /\ v.items[i].type = "list"
          /\ Len(v.items[i].items) = Len(v.items[1].items)
          /\ \A j \in DOMAIN v.items[i].items : v.items[i].items[j].type \in {"int", "str"}

RECURSIVE Flatten(_)
Flatten(rows) ==
    IF rows = << >> THEN << >> ELSE Head(rows).items \o Flatten(Tail(rows))

\* The scalars of a JSON value in C order, and its shape; "ragged" for what
\* numpy and torch refuse to lay out.
Layout(v) ==
    IF v.type \in {"int", "str"} THEN [ok |-> TRUE, shape |-> << >>, flat |-> << v >>]
    ELSE IF v.type = "list" /\ \A i \in DOMAIN v.items : v.items[i].type \in {"int", "str"}
    THEN [ok |-> TRUE, shape |-> << Len(v.items) >>, flat |-> v.items]
    ELSE IF IsRectangular(v)
    THEN [ok |-> TRUE, shape |-> << Len(v.items), Len(v.items[1].items) >>,
          flat |-> Flatten(v.items)]
    ELSE [ok |-> FALSE]

\* np.array(x).reshape(1, -1): one row holding every scalar; a string among
\* them turns the whole array into strings.
np_array_reshape(x) ==
    LET a == Layout(x)
    IN  IF ~a.ok THEN Raised("ValueError")
        ELSE [type |-> "ndarray",
              dtype |-> IF \E i \in DOMAIN a.flat : a.flat[i].type = "str"
                        THEN "str" ELSE "int64",
              row |-> [i \in DOMAIN a.flat |-> a.flat[i].value]]

\* fraud_model.predict(features): the input validation of scikit-learn,
\* then the tree, here one split on one feature; the labels come back as
\* an array of numpy.int64.
fraud_model_predict(model, features) ==
    IF features.dtype = "str" THEN Raised("ValueError")
    ELSE IF Len(features.row) # model.n_features_in THEN Raised("ValueError")
    ELSE [type |-> "ndarray", dtype |-> "int64",
          row |-> << [type |-> "numpy.int64",
                      value |-> IF features.row[model.split] > 0 THEN 1 ELSE 0] >>]

\* jsonify({key: value}): Flask's encoder knows Python numbers, strings and
\* lists, and no numpy scalar.
jsonify(status, key, value) ==
    IF value.type = "numpy.int64" THEN Raised("TypeError")
    ELSE Response(status, key, value)

\* An except clause that names KeyError only.
except_KeyError(exc) == exc = "KeyError"

\* Lines 49 and 67: `except Exception as e`.
except_Exception(exc) == exc \in ExceptionClasses

\* Lines 49-51 and 67-69: the error body, or the exception going on up.
handle(result) ==
    IF result.type = "raise"
    THEN IF except_Exception(result.exc)
         THEN jsonify(500, "error", JStr(result.exc))
         ELSE result
    ELSE result

\* Lines 40-48 for one outcome of get_json.
predict_fraud_try(data) ==
    IF data.type = "raise" THEN data
    ELSE LET x == getitem(data, "features")
         IN  IF x.type = "raise" THEN x
             ELSE LET features == np_array_reshape(x)
                  IN  IF features.type = "raise" THEN features
                      ELSE LET prediction == fraud_model_predict(fraud_model, features)
                           IN  IF prediction.type = "raise" THEN prediction
                               ELSE jsonify(200, "prediction", prediction.row[1])

predict_fraud_outcomes(req) ==
    { handle(predict_fraud_try(data)) : data \in get_json(req) }

\* torch.tensor(data, dtype=torch.float32)
torch_tensor(data) ==
    LET a == Layout(data)
    IN  IF ~a.ok THEN Raised("ValueError")
        ELSE IF \E i \in DOMAIN a.flat : a.flat[i].type = "str" THEN Raised("TypeError")
        ELSE [type |-> "Tensor", shape |-> a.shape,
              flat |-> [i \in DOMAIN a.flat |-> a.flat[i].value]]

RECURSIVE SumSeq(_)
SumSeq(s) == IF s = << >> THEN 0 ELSE Head(s) + SumSeq(Tail(s))

\* torch.sigmoid in thousandths, at the three activations the reduced
\* network takes.
sigmoid(z) == IF z < 0 THEN 269 ELSE IF z = 0 THEN 500 ELSE 731

\* exp of a value given in thousandths, in thousandths.
exp_milli(p) == IF p = 269 THEN 1309 ELSE IF p = 500 THEN 1649 ELSE 2077

\* RNNModel.forward: x.unsqueeze(1) needs a dimension 1 to insert at, the
\* RNN a batch of rows of input_size features; the network is reduced to
\* the sign of one weight applied to the sum of a row. One value per row.
RNNModel_forward(model, x) ==
    IF Len(x.shape) = 0 THEN Raised("IndexError")
    ELSE IF Len(x.shape) = 1 THEN Raised("RuntimeError")
    ELSE IF x.shape[2] # model.input_size THEN Raised("RuntimeError")
    ELSE [type |-> "Tensor", shape |-> << x.shape[1], 1 >>,
          rows |-> [i \in 1..x.shape[1] |->
                       << sigmoid(model.weight
                                  * SumSeq(SubSeq(x.flat, (i - 1) * x.shape[2] + 1,
                                                  i * x.shape[2]))) >>]]

\* torch.softmax(output, dim=0) instead: each value over the sum of its
\* column.
softmax_dim0(output) ==
    JList([i \in DOMAIN output.rows |->
              JList([j \in DOMAIN output.rows[i] |->
                        [type |-> "float",
                         value |-> (1000 * exp_milli(output.rows[i][j]))
                                   \div SumSeq([k \in DOMAIN output.rows |->
                                                   exp_milli(output.rows[k][j])])]])])

\* torch.softmax(output, dim=1).numpy().tolist(): each value over the sum of
\* its row, in thousandths.
softmax_dim1(output) ==
    JList([i \in DOMAIN output.rows |->
              JList([j \in DOMAIN output.rows[i] |->
                        [type |-> "float",
                         value |-> (1000 * exp_milli(output.rows[i][j]))
                                   \div SumSeq([k \in DOMAIN output.rows[i] |->
                                                   exp_milli(output.rows[i][k])])]])])

\* Lines 55-66 for one outcome of request.json.
predict_creditcard_try(json) ==
    IF json.type = "raise" THEN json
    ELSE LET data == getitem(json, "data")
         IN  IF data.type = "raise" THEN data
             ELSE LET input_tensor == torch_tensor(data)
                  IN  IF input_tensor.type = "raise" THEN input_tensor
                      ELSE LET output == RNNModel_forward(creditcard_model, input_tensor)
                           IN  IF output.type = "raise" THEN output
                               ELSE jsonify(200, "creditcard_predictions",
                                            softmax_dim1(output))

predict_creditcard_outcomes(req) ==
    { handle(predict_creditcard_try(json)) : json \in get_json(req) }

\* Lines 38-51.
predict_fraud ==
    \E req \in FraudRequests(MaxFeatures) :
        /\ request' = req
        /\ response' \in predict_fraud_outcomes(req)
        /\ UNCHANGED <<fraud_model, creditcard_model, api_loaded,
                       varsIp, varsEnrich, varsStats, varsDash, varsScripts>>

\* Lines 53-69.
predict_creditcard ==
    \E req \in CreditRequests(MaxFeatures) :
        /\ request' = req
        /\ response' \in predict_creditcard_outcomes(req)
        /\ UNCHANGED <<fraud_model, creditcard_model, api_loaded,
                       varsIp, varsEnrich, varsStats, varsDash, varsScripts>>

\* Lines 22-27: the two models as loaded from their files. RNNModel(input_size)
\* of line 25 is replaced by the loaded model on line 26, so the number of
\* features each model takes is the file's.
FraudModels(n) ==
    UNION { { [n_features_in |-> f, split |-> k] : k \in 1..f } : f \in 1..n }

CreditcardModels(n) ==
    { [input_size |-> f, weight |-> w] : f \in 1..n, w \in {-1, 1} }

InitApi ==
    /\ fraud_model \in FraudModels(MaxFeatures)
    /\ creditcard_model \in CreditcardModels(MaxFeatures)
    /\ api_loaded = [fraud_model |-> fraud_model, creditcard_model |-> creditcard_model]
    /\ request = Request("/", TRUE, PyNone)
    /\ response = [type |-> "none"]
    /\ IdleIp /\ IdleEnrich /\ IdleStats /\ IdleDash /\ IdleScripts

NextApi == predict_fraud \/ predict_creditcard

SpecApi == InitApi /\ [][NextApi]_vars

----------------------------------------------------------------------------
(* Claims about the prediction endpoints                                   *)

\* The features a request carries under `key`, when it carries any.
Carries(req, key) ==
    /\ req.is_json
    /\ req.body.type = "dict"
    /\ key \in DOMAIN req.body.items

\* A feature vector of the size the fraud model expects.
WellFormedFraud(req) ==
    /\ req.endpoint = "/predict/fraud"
    /\ Carries(req, "features")
    /\ IsListOf(req.body.items["features"], "int")
    /\ Len(req.body.items["features"].items) = api_loaded.fraud_model.n_features_in

\* One or more feature rows of the size the credit-card model expects.
WellFormedCredit(req) ==
    /\ req.endpoint = "/predict/creditcard"
    /\ Carries(req, "data")
    /\ req.body.items["data"].type = "list"
    /\ req.body.items["data"].items # << >>
    /\ \A i \in DOMAIN req.body.items["data"].items :
          /\ IsListOf(req.body.items["data"].items[i], "int")
          /\ Len(req.body.items["data"].items[i].items)
                 = api_loaded.creditcard_model.input_size

Malformed(req) ==
    /\ req.endpoint \in {"/predict/fraud", "/predict/creditcard"}
    /\ ~WellFormedFraud(req)
    /\ ~WellFormedCredit(req)

\* C6: a malformed request to either endpoint (no JSON, no 'features' /
\* 'data' key, values the model cannot consume) is answered with status 500
\* and a body with an 'error' key; no exception leaves the handler and the
\* models later requests are served from are as loaded.
C6_MalformedRequestGetsErrorBody ==
    /\ fraud_model = api_loaded.fraud_model
    /\ creditcard_model = api_loaded.creditcard_model
    /\ Malformed(request) =>
          /\ response.type = "response"
          /\ response.status = 500
          /\ response.body.key = "error"

\* A credit-card request whose rows have the wrong number of features has
\* been answered with the error body.
C6_Witness ==
    /\ request.endpoint = "/predict/creditcard"
    /\ Carries(request, "data")
    /\ IsRectangular(request.body.items["data"])
    /\ IsListOf(request.body.items["data"].items[1], "int")
    /\ Len(request.body.items["data"].items[1].items) # creditcard_model.input_size
    /\ response.type = "response"
    /\ response.status = 500
    /\ response.body.key = "error"

\* C7: a well-formed request to /predict/fraud is answered with a body
\* holding 'prediction', not with an error body and status 500.
C7_WellFormedFraudRequestGetsPrediction ==
    WellFormedFraud(request) =>
        /\ response.type = "response"
        /\ response.status = 200
        /\ response.body.key = "prediction"

----------------------------------------------------------------------------
(* augment_and_merge_data: SMOTE, the duplicate filter, the merge          *)

MaxAugRows == 5

\* A cell of a frame: a number, or NaN where a mask has blanked it.
Cell(v) == [nan |-> FALSE, value |-> v]

NaNCell == [nan |-> TRUE, value |-> 0]

\* The rows a caller passes in: one feature column x and the target y.
AugRows(n) ==
    UNION { [1..k -> { [x |-> Cell(x), y |-> Cell(y)] : x \in {0, 2}, y \in {0, 1} }] :
              k \in 0..n }

\* The index labels a frame of n rows carries: the RangeIndex of a frame
\* just read, the labels left after the first row of a longer frame was
\* dropped, or the labels of a frame sorted into reverse.
IndexesOf(n) ==
    { [i \in 1..n |-> i - 1], [i \in 1..n |-> i], [i \in 1..n |-> n - i] }

\* original_data. `src` names where a row comes from; no code reads it.
OriginalFrames(n) ==
    UNION { { [index |-> idx,
               rows |-> [i \in DOMAIN rows |->
                            [x |-> rows[i].x, y |-> rows[i].y,
                             src |-> [from |-> "original", pos |-> i]]]] :
                idx \in IndexesOf(Len(rows)) } :
            rows \in AugRows(n) }

\* num_samples: None, or a count.
NumSamples == { PyNone } \cup { [type |-> "int", value |-> k] : k \in 0..2 }

\* The positions of the rows of class c.
ClassRows(rows, c) == { i \in DOMAIN rows : rows[i].y.value = c }

Between(a, b) == IF a <= b THEN a..b ELSE b..a

\* smote.fit_resample(X, y) with sampling_strategy='auto': the rows passed
\* in, in their order, followed by as many new minority rows as the classes
\* differ by, each on the segment between two minority rows; under a fresh
\* RangeIndex. ValueError for a frame with one class or none, and for a
\* minority too small to have a neighbour (k_neighbors scaled to 1).
fit_resample(frame) ==
    LET rows == frame.rows
        n0   == Cardinality(ClassRows(rows, 0))
        n1   == Cardinality(ClassRows(rows, 1))
        minority == IF n0 < n1 THEN 0 ELSE 1
        need == IF n0 < n1 THEN n1 - n0 ELSE n0 - n1
        mins == ClassRows(rows, minority)
        new  == { [x |-> Cell(v), y |-> Cell(minority)] :
                    v \in UNION { UNION { Between(rows[i].x.value, rows[j].x.value) :
                                            j \in mins \ {i} } : i \in mins } }
    IN  IF n0 = 0 \/ n1 = 0 THEN { Raised("ValueError") }
        ELSE IF need > 0 /\ Cardinality(mins) < 2 THEN { Raised("ValueError") }
        ELSE { [type |-> "DataFrame",
                index |-> [i \in 1..(Len(rows) + need) |-> i - 1],
                rows |-> rows \o [k \in 1..need |->
                                     [x |-> s[k].x, y |-> s[k].y,
                                      src |-> [from |-> "SMOTE", pos |-> k]]]] :
               s \in [1..need -> new] }

\* original_data.loc[label, column], when the label is in the index.
HasLabel(frame, label) == \E j \in DOMAIN frame.index : frame.index[j] = label

RowAt(frame, label) == frame.rows[CHOOSE j \in DOMAIN frame.index : frame.index[j] = label]

\* synthetic_data.isin(original_data): a cell is True where the other frame
\* has a row under the same index label holding the same value in the same
\* column.
isin(df, frame, i, column) ==
    /\ HasLabel(frame, df.index[i])
    /\ RowAt(frame, df.index[i])[column] = df.rows[i][column]

\* Line 40: synthetic_data[~synthetic_data.isin(original_data)].dropna(how='all'):
\* the cells the mask marks become NaN, and the rows left without a value go.
drop_duplicates_of(df, frame) ==
    LET masked == [i \in DOMAIN df.rows |->
                      [x |-> IF isin(df, frame, i, "x") THEN NaNCell ELSE df.rows[i].x,
                       y |-> IF isin(df, frame, i, "y") THEN NaNCell ELSE df.rows[i].y,
                       src |-> df.rows[i].src]]
    IN  SelectSeq(masked, LAMBDA r : ~r.x.nan \/ ~r.y.nan)

\* The subsequences of s with n elements.
RECURSIVE Subsequences(_, _)
Subsequences(s, n) ==
    IF n = 0 THEN { << >> }
    ELSE IF Len(s) < n THEN {}
    ELSE { << Head(s) >> \o t : t \in Subsequences(Tail(s), n - 1) }
         \cup Subsequences(Tail(s), n)

\* Lines 43-44: `if num_samples:` skips None and 0; sample(n=...) raises
\* when asked for more rows than there are.
sample(rows, n) ==
    IF n.type = "NoneType" \/ n.value = 0 THEN { [type |-> "rows", rows |-> rows] }
    ELSE IF n.value > Len(rows) THEN { Raised("ValueError") }
    ELSE { [type |-> "rows", rows |-> t] : t \in Subsequences(rows, n.value) }

\* sklearn.utils.shuffle: the rows in an order of the library's choosing,
\* kept here as the bag of rows.
shuffle(rows) ==
    [r \in Range(rows) |-> Cardinality({ i \in DOMAIN rows : rows[i] = r })]

\* Lines 25-59: what a call can end in.
augment_and_merge_data_outcomes(frame, n) ==
    UNION { IF res.type = "raise" THEN { res }
            ELSE { IF smp.type = "raise" THEN smp
                   ELSE [type |-> "DataFrame",
                         rows |-> shuffle(frame.rows \o smp.rows)] :
                     smp \in sample(drop_duplicates_of(res, frame), n) } :
            res \in fit_resample(frame) }

augment_and_merge_data ==
    /\ augmented_data.type = "pending"
    /\ augmented_data' \in augment_and_merge_data_outcomes(original_data, num_samples)
    /\ UNCHANGED <<original_data, num_samples, varsStopper, varsTrain,
                   varsIp, varsEnrich, varsStats, varsDash, varsApi>>

InitAugment ==
    /\ original_data \in OriginalFrames(MaxAugRows)
    /\ num_samples \in NumSamples
    /\ augmented_data = [type |-> "pending"]
    /\ IdleStopper /\ IdleTrain
    /\ IdleIp /\ IdleEnrich /\ IdleStats /\ IdleDash /\ IdleApi

NextAugment == augment_and_merge_data

SpecAugment == InitAugment /\ [][NextAugment]_vars

\* How many rows of the returned frame stem from row i of the original.
CopiesOfOriginal(i) ==
    LET bag  == augmented_data.rows
        hits == { r \in DOMAIN bag : r.src = [from |-> "original", pos |-> i] }
    IN  IF hits = {} THEN 0
        ELSE LET RECURSIVE Total(_)
                 Total(S) == IF S = {} THEN 0
                             ELSE LET r == CHOOSE r \in S : TRUE
                                  IN  bag[r] + Total(S \ {r})
             IN  Total(hits)

\* The number of rows of the returned frame.
ReturnedRows ==
    LET bag == augmented_data.rows
        RECURSIVE Total(_)
        Total(S) == IF S = {} THEN 0
                    ELSE LET r == CHOOSE r \in S : TRUE
                         IN  bag[r] + Total(S \ {r})
    IN  Total(DOMAIN bag)

\* C11: the returned dataset holds every row of the original once, no row of
\* the original a second time, and, when num_samples is given, exactly
\* len(original_data) + num_samples rows.
C11_OriginalOncePlusSynthetic ==
    augmented_data.type = "DataFrame" =>
        /\ \A i \in DOMAIN original_data.rows : CopiesOfOriginal(i) = 1
        /\ num_samples # PyNone =>
               ReturnedRows = Len(original_data.rows) + num_samples.value

----------------------------------------------------------------------------
(* EarlyStopping and train_model                                           *)

MaxCalls == 4

MaxPatience == 2

MaxEpochs == 3

MaxBatches == 2

\* A float loss: NaN, or the ratio num / den with den > 0.
LossVal(num, den) == [nan |-> FALSE, num |-> num, den |-> den]

LossNaN == [nan |-> TRUE, num |-> 0, den |-> 1]

\* The losses passed to the stopper when it is driven on its own.
Losses == { LossNaN } \cup { LossVal(n, 1) : n \in 0..2 }

\* The delta values a stopper is built with.
Deltas == {0, 1}

\* a + delta
loss_add(a, delta) ==
    IF a.nan THEN a ELSE LossVal(a.num + delta * a.den, a.den)

\* a > b on floats: False when either side is NaN.
loss_gt(a, b) == ~a.nan /\ ~b.nan /\ a.num * b.den > b.num * a.den

\* Lines 68-73.
EarlyStopping_init(patience, delta) ==
    [patience |-> patience, delta |-> delta, best_loss |-> PyNone,
     counter |-> 0, early_stop |-> FALSE]

\* Line 80 with > in place of >=.
patience_exceeded(counter, patience) == counter > patience

\* Line 80: self.counter >= self.patience
patience_reached(counter, patience) == counter >= patience

\* Lines 83-84 with the flag cleared as well.
improved_clearing_stop(self, loss) ==
    [self EXCEPT !.best_loss = loss, !.counter = 0, !.early_stop = FALSE]

\* Lines 83-84.
improved(self, loss) == [self EXCEPT !.best_loss = loss, !.counter = 0]

\* Lines 75-84: the object after __call__(loss).
EarlyStopping_call(self, loss) ==
    IF self.best_loss = PyNone
    THEN [self EXCEPT !.best_loss = loss]
    ELSE IF loss_gt(loss, loss_add(self.best_loss, self.delta))
    THEN [self EXCEPT !.counter = self.counter + 1,
                      !.early_stop = IF patience_reached(self.counter + 1, self.patience)
                                     THEN TRUE ELSE self.early_stop]
    ELSE improved(self, loss)

\* One more call on a stopper driven on its own.
call_early_stopper ==
    /\ Len(losses) < MaxCalls
    /\ \E loss \in Losses :
          /\ early_stopper' = EarlyStopping_call(early_stopper, loss)
          /\ losses' = Append(losses, [loss |-> loss, best_loss |-> early_stopper.best_loss])
    /\ UNCHANGED <<varsAugment, varsTrain, varsIp, varsEnrich, varsStats, varsDash, varsApi>>

InitStopper ==
    /\ early_stopper \in { EarlyStopping_init(p, d) : p \in 1..MaxPatience, d \in Deltas }
    /\ losses = << >>
    /\ IdleAugment /\ IdleTrain
    /\ IdleIp /\ IdleEnrich /\ IdleStats /\ IdleDash /\ IdleApi

NextStopper == call_early_stopper

SpecStopper == InitStopper /\ [][NextStopper]_vars

\* Call k passed a loss strictly greater than best_loss + delta, best_loss
\* as held when the call was made.
Worse(k) ==
    /\ losses[k].best_loss # PyNone
    /\ loss_gt(losses[k].loss, loss_add(losses[k].best_loss, early_stopper.delta))

\* At some point p consecutive calls were each worse.
WorseStreak(p) ==
    \E k \in p..Len(losses) : \A m \in (k - p + 1)..k : Worse(m)

\* C13: with patience p >= 1, early_stop is True exactly if at some point p
\* consecutive calls each passed a loss above best_loss + delta; while it is
\* False, 0 <= counter < p; the first call never sets it.
C13_StopsAfterPatienceWorseCalls ==
    /\ early_stopper.early_stop <=> WorseStreak(early_stopper.patience)
    /\ ~early_stopper.early_stop =>
           (0 <= early_stopper.counter /\ early_stopper.counter < early_stopper.patience)
    /\ Len(losses) <= 1 => ~early_stopper.early_stop

\* A stopper of patience 2 has stopped, after a call that reset its counter.
C13_Witness ==
    /\ early_stopper.patience = 2
    /\ early_stopper.early_stop
    /\ \E k \in 2..Len(losses) : ~Worse(k)

\* C18: once early_stop is True it is True after every later call.
C18_EarlyStopLatches ==
    [][early_stopper.early_stop => early_stopper'.early_stop]_vars

\* A stopped stopper has taken a loss that improved on best_loss and reset
\* its counter.
C18_Witness ==
    /\ early_stopper.early_stop
    /\ early_stopper.counter = 0
    /\ losses # << >>
    /\ early_stopper.best_loss = losses[Len(losses)].loss
    /\ losses[Len(losses)].best_loss # PyNone
    /\ loss_gt(losses[Len(losses)].best_loss, losses[Len(losses)].loss)

\* C19: for every delta >= 0, best_loss never increases from call to call and
\* after each call is the minimum of the losses passed so far (stated for
\* losses that are numbers).
C19_BestLossIsMinimum ==
    (losses # << >> /\ \A k \in DOMAIN losses : ~losses[k].loss.nan) =>
        /\ \A k \in DOMAIN losses : ~loss_gt(early_stopper.best_loss, losses[k].loss)
        /\ \E k \in DOMAIN losses : early_stopper.best_loss = losses[k].loss
        /\ \A k \in DOMAIN losses :
               losses[k].best_loss # PyNone =>
                   ~loss_gt(IF k < Len(losses) THEN losses[k + 1].best_loss
                            ELSE early_stopper.best_loss,
                            losses[k].best_loss)

\* The loss.item() values a batch can give.
BatchLosses == { LossNaN, LossVal(0, 1), LossVal(1, 1) }

\* total_loss over the batches of one epoch; NaN once a batch loss is NaN.
RECURSIVE total_loss(_)
total_loss(batch_losses) ==
    IF batch_losses = << >> THEN LossVal(0, 1)
    ELSE LET rest == total_loss(Tail(batch_losses))
         IN  IF Head(batch_losses).nan \/ rest.nan THEN LossNaN
             ELSE LossVal(Head(batch_losses).num + rest.num, 1)

\* Line 102: total_loss / len(train_loader), for a loader that yields batches.
avg_loss(total, len) == IF total.nan THEN LossNaN ELSE LossVal(total.num, len)

\* Lines 92-112, one pass of the epoch loop: the batches, the average, the
\* stopper, the break. A loader without batches leaves total_loss at 0 and
\* line 102 divides by zero.
train_epoch ==
    /\ train_pc = "loop"
    /\ epoch < num_epochs
    /\ IF train_loader = 0
       THEN /\ train_pc' = "raised"
            /\ UNCHANGED <<early_stopper, losses, epoch>>
       ELSE \E batch_losses \in [1..train_loader -> BatchLosses] :
               LET loss == avg_loss(total_loss(batch_losses), train_loader)
               IN  /\ early_stopper' = EarlyStopping_call(early_stopper, loss)
                   /\ losses' = Append(losses, [loss |-> loss,
                                                best_loss |-> early_stopper.best_loss])
                   /\ epoch' = epoch + 1
                   /\ train_pc' = IF early_stopper'.early_stop THEN "returned" ELSE "loop"
    /\ UNCHANGED <<train_loader, num_epochs, varsAugment,
                   varsIp, varsEnrich, varsStats, varsDash, varsApi>>

\* Line 92: range(num_epochs) is used up; the function returns.
train_return ==
    /\ train_pc = "loop"
    /\ epoch = num_epochs
    /\ train_pc' = "returned"
    /\ UNCHANGED <<train_loader, num_epochs, epoch, varsStopper, varsAugment,
                   varsIp, varsEnrich, varsStats, varsDash, varsApi>>

\* Lines 87-91: train_model called with any loader, num_epochs and patience.
InitTrain ==
    /\ train_loader \in 0..MaxBatches
    /\ num_epochs \in 0..MaxEpochs
    /\ early_stopper \in { EarlyStopping_init(p, 0) : p \in 1..MaxPatience }
    /\ losses = << >>
    /\ epoch = 0
    /\ train_pc = "loop"
    /\ IdleAugment
    /\ IdleIp /\ IdleEnrich /\ IdleStats /\ IdleDash /\ IdleApi

NextTrain == train_epoch \/ train_return

SpecTrain == InitTrain /\ [][NextTrain]_vars

\* C14: train_model runs at most num_epochs epochs, calls the stopper once
\* per completed epoch, runs no epoch after the one at which early_stop
\* became True, and, if early_stop is never set, has run exactly num_epochs
\* epochs when it ends.
C14_RunsUntilStopOrNumEpochs ==
    /\ epoch <= num_epochs
    /\ Len(losses) = epoch
    /\ early_stopper.early_stop => train_pc # "loop"
    /\ (train_pc # "loop" /\ ~early_stopper.early_stop) => epoch = num_epochs

----------------------------------------------------------------------------
(* Further claims about update_charts                                      *)

ChartErrorAlert ==
    Alert(<<"Error updating charts. Please check the data or filters.">>, "block", "red")

FiguresOf(o) ==
    { o.fraud_trends_fig, o.fraud_device_fig, o.fraud_browser_fig,
      o.fraud_hour_fig, o.fraud_day_fig }

\* C15: when building the figures raises, update_charts still returns; all
\* five figures are the empty figure and the alert is the red chart-error
\* alert, whatever alert the filter step had set; no built figure comes
\* back beside an empty one or beside the chart-error alert.
C15_FigureErrorEmptiesAllFigures ==
    (call.fn = "update_charts" /\ out.type = "return") =>
        /\ (out.filtered = << >> /\ px_rejects_empty) =>
               /\ FiguresOf(out) = { EmptyFigure }
               /\ Alert(out.alert_message, out.alert_style.display, out.alert_style.color)
                      = ChartErrorAlert
        /\ (EmptyFigure \in FiguresOf(out) \/ out.alert_message = ChartErrorAlert.alert_message)
               => FiguresOf(out) = { EmptyFigure }

\* A filter click with two dates that no record lies between, on a dataset
\* with records, where plotly raises: the green alert of the filter step
\* has been replaced.
C15_Witness ==
    /\ FilterClickWithDates
    /\ out.type = "return"
    /\ loaded.fraud_data_processed # << >>
    /\ out.filtered = << >>
    /\ px_rejects_empty
    /\ out.alert_style.color = "red"
    /\ FiguresOf(out) = { EmptyFigure }

RECURSIVE SumOver(_, _)
SumOver(S, field) ==
    IF S = {} THEN 0
    ELSE LET e == CHOOSE e \in S : TRUE
         IN  e[field] + SumOver(S \ {e}, field)

FraudRecords(rows) == Cardinality({ i \in DOMAIN rows : rows[i].class = 1 })

\* C16: on every record set the figures are built from, the fraud-trends
\* series summed over the dates, the fraud-by-hour counts summed over the
\* hours and the fraud-by-day counts summed over the weekdays each equal
\* the number of records with fraud label 1.
C16_FraudAggregationsAgree ==
    (call.fn = "update_charts" /\ out.type = "return" /\ EmptyFigure \notin FiguresOf(out)) =>
        /\ SumOver(out.fraud_trends_fig.data, "class") = FraudRecords(out.filtered)
        /\ SumOver(out.fraud_hour_fig.data, "size") = FraudRecords(out.filtered)
        /\ SumOver(out.fraud_day_fig.data, "size") = FraudRecords(out.filtered)

\* Figures built from a fraud record and a record that is none, on
\* different days.
C16_Witness ==
    /\ call.fn = "update_charts"
    /\ out.type = "return"
    /\ EmptyFigure \notin FiguresOf(out)
    /\ Len(out.filtered) = 2
    /\ FraudRecords(out.filtered) = 1
    /\ Cardinality(out.fraud_trends_fig.data) = 2

\* C17: a filter click with both dates charts exactly the records with
\* start_date <= purchase_time <= end_date, a date without a time being
\* 00:00 of its day, and leaves out no record purchased during the
\* selected end day.
C17_DateFilterComplete ==
    (FilterClickWithDates /\ out.type = "return") =>
        LET full == loaded.fraud_data_processed
        IN  /\ out.filtered =
                   SelectSeq(full, LAMBDA r : /\ InstantOf(call.start_date) <= r.purchase_time
                                              /\ r.purchase_time <= InstantOf(call.end_date))
            /\ \A i \in DOMAIN full :
                   (/\ InstantOf(call.start_date) <= full[i].purchase_time
                    /\ dt_date(full[i].purchase_time) = call.end_date.day)
                       => \E k \in DOMAIN out.filtered : out.filtered[k] = full[i]

----------------------------------------------------------------------------
(* Further claims about /predict/creditcard                                *)

\* C20: a well-formed request with N feature rows is answered with N rows of
\* one value each, and that value is 1 whatever the features are.
C20_CreditcardPredictionsAreAllOne ==
    WellFormedCredit(request) =>
        /\ response.type = "response"
        /\ response.status = 200
        /\ response.body.key = "creditcard_predictions"
        /\ Len(response.body.value.items) = Len(request.body.items["data"].items)
        /\ \A i \in DOMAIN response.body.value.items :
               response.body.value.items[i] = JList(<< [type |-> "float", value |-> 1000] >>)

\* Two rows with different features have been answered.
C20_Witness ==
    /\ WellFormedCredit(request)
    /\ Len(request.body.items["data"].items) = 2
    /\ request.body.items["data"].items[1] # request.body.items["data"].items[2]
    /\ response.type = "response"
    /\ response.status = 200

====
